---- MODULE Spec2Model ----
(***************************************************************************)
(* Model of the extension packaging tool (src/src/main.rs): the registry   *)
(* load, the changed-since and unpublished selections, the manifest        *)
(* loader, and the per-extension package build driven by main's loop.      *)
(*                                                                         *)
(* Strings whose characters matter (ids, versions, file names) are         *)
(* sequences of one-character strings; a path is a record of an absolute   *)
(* flag and a sequence of components.  Files and directories are read      *)
(* from the environment at the step that reads them.                       *)
(***************************************************************************)
EXTENDS Integers, Sequences, FiniteSets, TLC

VARIABLES
    pc,                   \* position of main / package_extension
    should_publish,       \* main: the selection mode
    loop_i,               \* the selection's for loop: entries visited so far
    extensions_toml,      \* main: the registry read from extensions.toml
    build_exists,         \* whether the "build" directory exists
    main_extensions_toml, \* changed_extension_ids: the registry on origin/main
    published,            \* unpublished_extension_ids: published_extension_versions
    extension_ids,        \* main: the selected ids (the Vec iterated by the for loop)
    next_i,               \* main: number of ids the for loop has taken
    error,                \* the error main (or the selection under test) returned
    cur,                  \* package_extension: its arguments
    read_frame,           \* the read_extension_manifest call just made
    metadata,             \* package_extension: the loaded manifest
    package_manifest,     \* package_extension: the output manifest
    package_dir,          \* package_extension: the scratch TempDir
    archive_name,         \* package_extension: the computed archive path
    scratch,              \* contents of the scratch directory on disk
    theme_entries,        \* entries read_dir has yielded in this build
    pkg_result,           \* what package_extension returned
    archives              \* archive files written on disk

vars == <<pc, should_publish, loop_i, extensions_toml, build_exists, main_extensions_toml,
          published, extension_ids, next_i, error, cur, read_frame, metadata,
          package_manifest, package_dir, archive_name, scratch, theme_entries,
          pkg_result, archives>>

(***************************************************************************)
(* Bounds                                                                  *)
(***************************************************************************)
NumIds == 2
MaxVersionParts == 3
MaxThemes == 2

(***************************************************************************)
(* Option and Result values                                                *)
(***************************************************************************)
None == [some |-> FALSE]
Some(x) == [some |-> TRUE, val |-> x]
Ok(x) == [ok |-> TRUE, val |-> x]
Err(e) == [ok |-> FALSE, err |-> e]

(***************************************************************************)
(* Strings                                                                 *)
(***************************************************************************)
RECURSIVE Version(_)
Version(k) ==
    IF k = 1 THEN <<"0">>
    ELSE Version(k - 1) \o <<".", ToString((k - 1) % 2)>>

Versions == {Version(k) : k \in 1..MaxVersionParts}

ExtensionId(i) == <<"x", ToString(i)>>

ExtensionIds == {ExtensionId(i) : i \in 1..NumIds}

S_build == <<"b", "u", "i", "l", "d">>
S_themes == <<"t", "h", "e", "m", "e", "s">>
S_tmp == <<".", "t", "m", "p">>
S_tar_gz == <<"t", "a", "r", ".", "g", "z">>
S_extensions == <<"e", "x", "t", "e", "n", "s", "i", "o", "n", "s">>

RelPath(comps) == [abs |-> FALSE, comps |-> comps]

\* Path::join with a component that is a plain file name.
Join(path, name) == [abs |-> path.abs, comps |-> Append(path.comps, name)]

(***************************************************************************)
(* Registry: an IndexMap, i.e. a sequence of entries with distinct keys    *)
(***************************************************************************)
ExtensionInfo(id, version) ==
    [id |-> id, path |-> RelPath(<<S_extensions, id>>), version |-> version]

RegistryEntries == {ExtensionInfo(id, v) : id \in ExtensionIds, v \in Versions}

Registries ==
    UNION {{r \in [1..n -> RegistryEntries] :
                \A i, j \in 1..n : i # j => r[i].id # r[j].id} :
           n \in 0..NumIds}

Keys(reg) == {reg[i].id : i \in 1..Len(reg)}

\* IndexMap::get
Get(reg, id) ==
    IF \E i \in 1..Len(reg) : reg[i].id = id
    THEN Some(reg[CHOOSE i \in 1..Len(reg) : reg[i].id = id])
    ELSE None

\* .get(id).map(|info| info.version.as_str())
VersionIn(reg, id) ==
    LET e == Get(reg, id) IN IF e.some THEN Some(e.val.version) ELSE None

(***************************************************************************)
(* Diff engine                                                             *)
(***************************************************************************)
\* Variant: any version on main counts as unchanged.
IsOnMainMut(version_on_main, version) == version_on_main.some

\* The test of the changed-since loop body (line 314): skip when the version
\* on main is Some(current version).
IsOnMain(version_on_main, version) == version_on_main = Some(version)

\* Variant: the id is put in front.
ChangedPushMut(changed, id) == <<id>> \o changed

\* changed.push(extension_id.clone())
ChangedPush(changed, id) == Append(changed, id)

\* One iteration of the for loop of changed_extension_ids.
ChangedStep(changed, info, baseline) ==
    IF IsOnMain(VersionIn(baseline, info.id), info.version)
    THEN changed
    ELSE ChangedPush(changed, info.id)

\* The stub collaborator: always an empty map.
get_published_versions_by_extension_id == [id \in {} |-> {}]

\* HashMap::get on the published index.
PublishedGet(index, id) ==
    IF id \in DOMAIN index THEN Some(index[id]) ELSE None

\* One iteration of the for loop of unpublished_extension_ids.
UnpublishedStep(unpublished, info, index) ==
    LET versions == PublishedGet(index, info.id) IN
    IF ~versions.some THEN unpublished
    ELSE IF info.version \in versions.val
         THEN Append(unpublished, info.id)
         ELSE unpublished

(***************************************************************************)
(* Paths (std::path)                                                       *)
(***************************************************************************)
HasDot(name) == \E i \in 1..Len(name) : name[i] = "."

LastDot(name) == CHOOSE i \in 1..Len(name) :
    name[i] = "." /\ \A j \in (i + 1)..Len(name) : name[j] # "."

\* Path::file_stem of a file name: the part before the last dot, the whole
\* name when it has no dot or its only dot is the first character.
file_stem(name) ==
    IF name = <<".", ".">> \/ ~HasDot(name) \/ LastDot(name) = 1
    THEN name
    ELSE SubSeq(name, 1, LastDot(name) - 1)

\* Path::with_extension: the last component is cut back to its file stem
\* and "." + extension is appended.
with_extension(path, extension) ==
    LET n == Len(path.comps)
        name == path.comps[n]
    IN  [path EXCEPT !.comps[n] =
            file_stem(name) \o (IF extension = <<>> THEN <<>> ELSE <<".">> \o extension)]

\* format!("{extension_id}-{}", package_manifest.version)
ArchiveStem(extension_id, version) == extension_id \o <<"-">> \o version

\* lines 109-112
ArchiveName(dir, extension_id, version) ==
    with_extension(Join(dir, ArchiveStem(extension_id, version)), S_tar_gz)

\* tempfile::tempdir_in("build"): a fresh directory name under build, here
\* made unique by the number n of the build it is allocated for.
TempDirPath(n) == RelPath(<<S_build, S_tmp \o <<ToString(n)>> >>)

(***************************************************************************)
(* Files as the readers see them                                           *)
(***************************************************************************)
\* kind: how far a reader gets.  "NotFound" and "Denied" fail at File::open,
\* "NotText" at read_to_string, "Malformed" at the parser; "Parsed" carries
\* the deserialized value.
BadFileKinds == {"NotFound", "Denied", "NotText", "Malformed"}

BadFile(kind) == [kind |-> kind]
ParsedFile(val) == [kind |-> "Parsed", val |-> val]

\* A directory entry whose file was never opened.
Unread == [kind |-> "Unread"]

IoError(file) == [kind |-> "Io", detail |-> file.kind]
ParseError(file) == [kind |-> "Parse", detail |-> file.kind]

\* Variant: every failure counts as "not found".
try_read_toml_file_mut(file) ==
    IF file.kind # "Parsed" THEN Ok(None) ELSE Ok(Some(file.val))

try_read_toml_file(file) ==
    IF file.kind = "NotFound" THEN Ok(None)
    ELSE IF file.kind \in {"Denied", "NotText"} THEN Err(IoError(file))
    ELSE IF file.kind = "Malformed" THEN Err(ParseError(file))
    ELSE Ok(Some(file.val))

read_json_file(file) ==
    IF file.kind \in {"NotFound", "Denied", "NotText"} THEN Err(IoError(file))
    ELSE IF file.kind = "Malformed" THEN Err(ParseError(file))
    ELSE Ok(file.val)

(***************************************************************************)
(* Manifest loader                                                         *)
(***************************************************************************)
ManifestNames == {"Demo"}

\* The themes list a source manifest may declare.
SourceThemeLists == {<<>>, <<RelPath(<<S_themes, <<"o", "n", "e">> >>)>>}

ExtensionManifests ==
    [name : ManifestNames, version : Versions, themes : SourceThemeLists,
     languages : {<<>>}]

ManifestFiles ==
    {BadFile(k) : k \in BadFileKinds} \cup {ParsedFile(m) : m \in ExtensionManifests}

\* The result of the call and the files it opened, in order.
read_extension_manifest(toml, json) ==
    LET t == try_read_toml_file(toml) IN
    IF ~t.ok THEN [result |-> Err(t.err), opened |-> <<"extension.toml">>]
    ELSE IF t.val.some
    THEN [result |-> Ok([manifest |-> t.val.val, format |-> "Toml"]),
          opened |-> <<"extension.toml">>]
    ELSE LET j == read_json_file(json) IN
         [result |-> IF j.ok THEN Ok([manifest |-> j.val, format |-> "Json"])
                     ELSE Err(j.err),
          opened |-> <<"extension.toml", "extension.json">>]

(***************************************************************************)
(* Themes                                                                  *)
(***************************************************************************)
InvalidByte == "0xFF"

\* OsStr::to_str: None unless the name is valid Unicode.
to_str(file_name) ==
    IF \E i \in 1..Len(file_name) : file_name[i] = InvalidByte
    THEN None ELSE Some(file_name)

ThemeDocuments == {[schema_errors |-> {}], [schema_errors |-> {"required"}]}

ThemeFiles ==
    {BadFile(k) : k \in {"Denied", "NotText", "Malformed"}}
        \cup {ParsedFile(d) : d \in ThemeDocuments}

ThemeFileNames(n) == {<<"t", ToString(n)>>, <<"t", ToString(n), InvalidByte>>}

\* Variant: no schema check.
validate_theme_mut(theme) == Ok(theme)

validate_theme(theme) ==
    IF theme.schema_errors # {}
    THEN Err([kind |-> "ThemeValidation", errors |-> theme.schema_errors])
    ELSE Ok(theme)

\* Variant: the source path of the entry is recorded.
ThemePackagePathMut(entry_path, theme_filename) == entry_path

\* PathBuf::from_iter(["themes", &theme_filename])
ThemePackagePath(entry_path, theme_filename) == RelPath(<<S_themes, theme_filename>>)

(***************************************************************************)
(* package_extension: the pure parts                                       *)
(***************************************************************************)
\* Variant: no version check.
VersionMismatchMut(manifest_version, extension_version) == FALSE

\* line 80
VersionMismatch(manifest_version, extension_version) ==
    manifest_version # extension_version

\* lines 81-92
VersionMismatchError(extension_id, manifest, extension_version) ==
    [kind |-> "VersionMismatch", extension_id |-> extension_id,
     name |-> manifest.name, expected |-> extension_version,
     actual |-> manifest.version]

\* lines 95-106
NewPackageManifest(manifest) ==
    [name |-> manifest.name, version |-> manifest.version,
     themes |-> <<>>, languages |-> <<>>]

NoScratch == [exists |-> FALSE]

\* A freshly created temporary directory.
EmptyScratch ==
    [exists |-> TRUE, themes_dir |-> FALSE, themes |-> {}, manifest |-> None]

\* The body of the while loop for one directory entry (lines 129-145):
\* what becomes of the entry, and the error if it ends the build.
ThemeStep(file_name, file, copy_ok) ==
    IF ~to_str(file_name).some THEN [outcome |-> "Skipped"]
    ELSE LET theme == read_json_file(file) IN
         IF ~theme.ok THEN [outcome |-> "Failed", err |-> theme.err]
         ELSE LET v == validate_theme(theme.val) IN
              IF ~v.ok THEN [outcome |-> "Failed", err |-> v.err]
              ELSE IF ~copy_ok
                   THEN [outcome |-> "Failed", err |-> [kind |-> "Copy"]]
                   ELSE [outcome |-> "Copied"]

(***************************************************************************)
(* main                                                                    *)
(***************************************************************************)
pkg_vars == <<cur, read_frame, metadata, package_manifest, package_dir,
              archive_name, scratch, theme_entries, pkg_result>>

select_vars == <<main_extensions_toml, published, extension_ids, loop_i>>

InitCommon ==
    /\ pc = "main_read_registry"
    /\ loop_i = 0
    /\ extensions_toml = <<>>
    /\ build_exists = FALSE
    /\ main_extensions_toml = <<>>
    /\ published = get_published_versions_by_extension_id
    /\ extension_ids = <<>>
    /\ next_i = 0
    /\ error = None
    /\ cur = None
    /\ read_frame = None
    /\ metadata = None
    /\ package_manifest = None
    /\ package_dir = None
    /\ archive_name = None
    /\ scratch = NoScratch
    /\ theme_entries = <<>>
    /\ pkg_result = None
    /\ archives = {}

\* line 17: let should_publish = false
Init == InitCommon /\ should_publish = FALSE

\* main returns Err(e)
Fail(e) == pc' = "failed" /\ error' = Some(e)

\* line 19, the file read
LoadRegistry ==
    /\ pc = "main_read_registry"
    /\ \E r \in Registries : extensions_toml' = r
    /\ pc' = "main_mkdir"
    /\ UNCHANGED <<should_publish, build_exists, next_i, error, archives>>
    /\ UNCHANGED select_vars /\ UNCHANGED pkg_vars

\* line 19, the file missing, unreadable or malformed
LoadRegistryFails ==
    /\ pc = "main_read_registry"
    /\ Fail([kind |-> "RegistryLoad"])
    /\ UNCHANGED <<should_publish, extensions_toml, build_exists, next_i, archives>>
    /\ UNCHANGED select_vars /\ UNCHANGED pkg_vars

\* line 21
CreateBuildDir ==
    /\ pc = "main_mkdir"
    /\ \E ok \in BOOLEAN :
         IF ok THEN /\ build_exists' = TRUE
                    /\ pc' = "main_select"
                    /\ error' = error
         ELSE /\ Fail([kind |-> "CreateBuildDir"])
              /\ build_exists' = build_exists
    /\ UNCHANGED <<should_publish, extensions_toml, next_i, archives>>
    /\ UNCHANGED select_vars /\ UNCHANGED pkg_vars

\* lines 302-306: git show origin/main:extensions.toml, parsed
GitShowMain ==
    /\ pc = "main_select" /\ ~should_publish
    /\ \E baseline \in Registries : main_extensions_toml' = baseline
    /\ pc' = "changed_loop"
    /\ loop_i' = 0
    /\ extension_ids' = <<>>
    /\ UNCHANGED <<should_publish, extensions_toml, build_exists,
                   published, next_i, error, archives>>
    /\ UNCHANGED pkg_vars

\* lines 302-306: git cannot be run, or its output is not UTF-8 or not a registry
GitShowMainFails ==
    /\ pc = "main_select" /\ ~should_publish
    /\ Fail([kind |-> "Baseline"])
    /\ UNCHANGED <<should_publish, extensions_toml, build_exists, next_i, archives>>
    /\ UNCHANGED select_vars /\ UNCHANGED pkg_vars

\* lines 309-319: one iteration
ChangedIter ==
    /\ pc = "changed_loop" /\ loop_i < Len(extensions_toml)
    /\ extension_ids' =
         ChangedStep(extension_ids, extensions_toml[loop_i + 1], main_extensions_toml)
    /\ loop_i' = loop_i + 1
    /\ UNCHANGED <<pc, should_publish, extensions_toml, build_exists,
                   main_extensions_toml, published, next_i, error, archives>>
    /\ UNCHANGED pkg_vars

\* lines 321-330: the loop is over, the ids are returned to main
ChangedReturn ==
    /\ pc = "changed_loop" /\ loop_i = Len(extensions_toml)
    /\ pc' = "main_loop"
    /\ main_extensions_toml' = <<>>
    /\ loop_i' = 0
    /\ UNCHANGED <<should_publish, extensions_toml, build_exists,
                   published, extension_ids, next_i, error, archives>>
    /\ UNCHANGED pkg_vars

\* line 276
GetPublishedVersions ==
    /\ pc = "main_select" /\ should_publish
    /\ published' = get_published_versions_by_extension_id
    /\ pc' = "unpublished_loop"
    /\ loop_i' = 0
    /\ extension_ids' = <<>>
    /\ UNCHANGED <<should_publish, extensions_toml, build_exists,
                   main_extensions_toml, next_i, error, archives>>
    /\ UNCHANGED pkg_vars

\* lines 279-287: one iteration
UnpublishedIter ==
    /\ pc = "unpublished_loop" /\ loop_i < Len(extensions_toml)
    /\ extension_ids' =
         UnpublishedStep(extension_ids, extensions_toml[loop_i + 1], published)
    /\ loop_i' = loop_i + 1
    /\ UNCHANGED <<pc, should_publish, extensions_toml, build_exists,
                   main_extensions_toml, published, next_i, error, archives>>
    /\ UNCHANGED pkg_vars

\* lines 289-298
UnpublishedReturn ==
    /\ pc = "unpublished_loop" /\ loop_i = Len(extensions_toml)
    /\ pc' = "main_loop"
    /\ loop_i' = 0
    /\ UNCHANGED <<should_publish, extensions_toml, build_exists,
                   main_extensions_toml, published, extension_ids, next_i, error,
                   archives>>
    /\ UNCHANGED pkg_vars

\* lines 29-46: the for loop takes the next id and calls package_extension
MainLoopTake ==
    /\ pc = "main_loop" /\ next_i < Len(extension_ids)
    /\ next_i' = next_i + 1
    /\ LET extension_id == extension_ids[next_i + 1]
           extension_info == Get(extensions_toml, extension_id)
       IN  IF extension_info.some
           THEN /\ cur' = Some([extension_id |-> extension_id,
                                extension_path |-> extension_info.val.path,
                                extension_version |-> extension_info.val.version])
                /\ pc' = "pkg_read"
           ELSE /\ cur' = cur
                /\ pc' = pc
    /\ UNCHANGED <<should_publish, extensions_toml, build_exists, error,
                   read_frame, metadata, package_manifest, package_dir,
                   archive_name, scratch, theme_entries, pkg_result, archives>>
    /\ UNCHANGED select_vars

\* the for loop is exhausted
MainLoopEnd ==
    /\ pc = "main_loop" /\ next_i = Len(extension_ids)
    /\ pc' = "main_cleanup"
    /\ UNCHANGED <<should_publish, extensions_toml, build_exists, next_i,
                   error, archives>>
    /\ UNCHANGED select_vars /\ UNCHANGED pkg_vars

\* lines 49-51
RemoveBuildDir ==
    /\ pc = "main_cleanup"
    /\ \E ok \in BOOLEAN :
         IF ok THEN /\ build_exists' = FALSE
                    /\ pc' = "done"
                    /\ error' = error
         ELSE /\ Fail([kind |-> "RemoveBuildDir"])
              /\ build_exists' = build_exists
    /\ UNCHANGED <<should_publish, extensions_toml, next_i, archives>>
    /\ UNCHANGED select_vars /\ UNCHANGED pkg_vars

(***************************************************************************)
(* package_extension                                                       *)
(***************************************************************************)
\* package_extension returns r
Return(r) == pkg_result' = Some(r) /\ pc' = "pkg_return"

\* line 78
PkgReadManifest ==
    /\ pc = "pkg_read"
    /\ \E toml \in ManifestFiles, json \in ManifestFiles :
         LET r == read_extension_manifest(toml, json) IN
         /\ read_frame' = Some([toml |-> toml, json |-> json,
                                result |-> r.result, opened |-> r.opened])
         /\ IF r.result.ok
            THEN /\ metadata' = Some(r.result.val.manifest)
                 /\ pc' = "pkg_check"
                 /\ pkg_result' = pkg_result
            ELSE /\ Return(Err(r.result.err))
                 /\ metadata' = metadata
    /\ UNCHANGED <<should_publish, extensions_toml, build_exists, next_i,
                   error, cur, package_manifest, package_dir, archive_name,
                   scratch, theme_entries, archives>>
    /\ UNCHANGED select_vars

\* lines 80-106
PkgCheckVersion ==
    /\ pc = "pkg_check"
    /\ read_frame' = None
    /\ IF VersionMismatch(metadata.val.version, cur.val.extension_version)
       THEN /\ Return(Err(VersionMismatchError(cur.val.extension_id, metadata.val,
                                               cur.val.extension_version)))
            /\ package_manifest' = package_manifest
       ELSE /\ package_manifest' = Some(NewPackageManifest(metadata.val))
            /\ pc' = "pkg_alloc"
            /\ pkg_result' = pkg_result
    /\ UNCHANGED <<should_publish, extensions_toml, build_exists, next_i,
                   error, cur, metadata, package_dir, archive_name, scratch,
                   theme_entries, archives>>
    /\ UNCHANGED select_vars

\* lines 108-122
PkgAllocate ==
    /\ pc = "pkg_alloc"
    /\ \E ok \in BOOLEAN :
         IF ok
         THEN /\ package_dir' = Some(TempDirPath(next_i))
              /\ archive_name' = Some(ArchiveName(TempDirPath(next_i),
                                                  cur.val.extension_id,
                                                  package_manifest.val.version))
              /\ scratch' = EmptyScratch
              /\ pc' = "pkg_themes"
              /\ pkg_result' = pkg_result
         ELSE /\ Return(Err([kind |-> "TempDir"]))
              /\ UNCHANGED <<package_dir, archive_name, scratch>>
    /\ UNCHANGED <<should_publish, extensions_toml, build_exists, next_i, error, cur,
                   read_frame, metadata, package_manifest, theme_entries, archives>>
    /\ UNCHANGED select_vars

\* lines 124-127 (and 149 when there is no themes directory)
PkgThemesDir ==
    /\ pc = "pkg_themes"
    /\ \E outcome \in {"NotDirectory", "CreateDirFails", "ReadDirFails", "Walk"} :
         CASE outcome = "NotDirectory" ->
                /\ Return(Ok("unit"))
                /\ scratch' = scratch
           [] outcome = "CreateDirFails" ->
                /\ Return(Err([kind |-> "CreateDir"]))
                /\ scratch' = scratch
           [] outcome = "ReadDirFails" ->
                /\ Return(Err([kind |-> "ReadDir"]))
                /\ scratch' = [scratch EXCEPT !.themes_dir = TRUE]
           [] outcome = "Walk" ->
                /\ pc' = "pkg_walk"
                /\ pkg_result' = pkg_result
                /\ scratch' = [scratch EXCEPT !.themes_dir = TRUE]
    /\ UNCHANGED <<should_publish, extensions_toml, build_exists, next_i,
                   error, cur, read_frame, metadata, package_manifest, package_dir,
                   archive_name, theme_entries, archives>>
    /\ UNCHANGED select_vars

\* lines 128-146: next_entry yields an entry and the loop body runs on it
PkgThemeEntry ==
    /\ pc = "pkg_walk" /\ Len(theme_entries) < MaxThemes
    /\ \E file_name \in ThemeFileNames(Len(theme_entries) + 1),
          file \in ThemeFiles, copy_ok \in BOOLEAN :
         LET step == ThemeStep(file_name, file, copy_ok)
             themes_src_dir == Join(cur.val.extension_path, S_themes)
             entry_path == Join(themes_src_dir, file_name)
         IN  \* the copy matters only when it is made
             /\ step.outcome = "Copied" \/ copy_ok
             /\ theme_entries' = Append(theme_entries,
                    [file_name |-> file_name,
                     file |-> IF step.outcome = "Skipped" THEN Unread ELSE file,
                     outcome |-> step.outcome])
             /\ CASE step.outcome = "Skipped" ->
                       UNCHANGED <<pc, pkg_result, scratch, package_manifest>>
                  [] step.outcome = "Failed" ->
                       /\ Return(Err(step.err))
                       /\ UNCHANGED <<scratch, package_manifest>>
                  [] step.outcome = "Copied" ->
                       /\ scratch' = [scratch EXCEPT !.themes = @ \cup {file_name}]
                       /\ package_manifest' =
                            [package_manifest EXCEPT !.val.themes =
                                Append(@, ThemePackagePath(entry_path, file_name))]
                       /\ UNCHANGED <<pc, pkg_result>>
    /\ UNCHANGED <<should_publish, extensions_toml, build_exists, next_i,
                   error, cur, read_frame, metadata, package_dir, archive_name,
                   archives>>
    /\ UNCHANGED select_vars

\* line 128: next_entry yields None, the walk is over (line 149)
PkgWalkEnd ==
    /\ pc = "pkg_walk"
    /\ Return(Ok("unit"))
    /\ UNCHANGED <<should_publish, extensions_toml, build_exists, next_i,
                   error, cur, read_frame, metadata, package_manifest, package_dir,
                   archive_name, scratch, theme_entries, archives>>
    /\ UNCHANGED select_vars

\* line 128: next_entry fails
PkgWalkFails ==
    /\ pc = "pkg_walk"
    /\ Return(Err([kind |-> "ReadDir"]))
    /\ UNCHANGED <<should_publish, extensions_toml, build_exists, next_i,
                   error, cur, read_frame, metadata, package_manifest, package_dir,
                   archive_name, scratch, theme_entries, archives>>
    /\ UNCHANGED select_vars

\* package_extension's locals go out of scope (the TempDir removes its
\* directory), and main applies `?` to the result (line 46).
PkgReturn ==
    /\ pc = "pkg_return"
    /\ cur' = None
    /\ read_frame' = None
    /\ metadata' = None
    /\ package_manifest' = None
    /\ package_dir' = None
    /\ archive_name' = None
    /\ scratch' = NoScratch
    /\ theme_entries' = <<>>
    /\ pkg_result' = None
    /\ IF pkg_result.val.ok
       THEN pc' = "main_loop" /\ error' = error
       ELSE Fail(pkg_result.val.err)
    /\ UNCHANGED <<should_publish, extensions_toml, build_exists, next_i,
                   archives>>
    /\ UNCHANGED select_vars

(***************************************************************************)
(* Specifications                                                          *)
(***************************************************************************)
Next ==
    \/ LoadRegistry
    \/ LoadRegistryFails
    \/ CreateBuildDir
    \/ GitShowMain
    \/ GitShowMainFails
    \/ ChangedIter
    \/ ChangedReturn
    \/ MainLoopTake
    \/ MainLoopEnd
    \/ RemoveBuildDir
    \/ PkgReadManifest
    \/ PkgCheckVersion
    \/ PkgAllocate
    \/ PkgThemesDir
    \/ PkgThemeEntry
    \/ PkgWalkEnd
    \/ PkgWalkFails
    \/ PkgReturn

Spec == Init /\ [][Next]_vars

\* The run of main in publish mode: the selection is unpublished_extension_ids.
InitPublish == InitCommon /\ should_publish = TRUE

NextPublish ==
    \/ LoadRegistry
    \/ LoadRegistryFails
    \/ CreateBuildDir
    \/ GetPublishedVersions
    \/ UnpublishedIter
    \/ UnpublishedReturn
    \/ MainLoopEnd
    \/ RemoveBuildDir

SpecPublish == InitPublish /\ [][NextPublish]_vars

(***************************************************************************)
(* Properties                                                              *)
(***************************************************************************)
Range(seq) == {seq[i] : i \in 1..Len(seq)}

\* The position of a key in a registry's iteration order.
Pos(reg, id) == CHOOSE i \in 1..Len(reg) : reg[i].id = id

MismatchKnown ==
    /\ cur.some /\ metadata.some /\ pc # "pkg_check"
    /\ metadata.val.version # cur.val.extension_version

\* C1: a manifest whose version differs from the registry-declared version
\* makes the build fail with a version-mismatch error naming both versions,
\* before a scratch directory is allocated, a theme is read or copied, or an
\* archive is written.
C1_VersionMismatchFailsFirst ==
    MismatchKnown =>
        /\ pc = "pkg_return"
        /\ ~pkg_result.val.ok
        /\ pkg_result.val.err.kind = "VersionMismatch"
        /\ pkg_result.val.err.expected = cur.val.extension_version
        /\ pkg_result.val.err.actual = metadata.val.version
        /\ package_dir = None
        /\ archive_name = None
        /\ scratch = NoScratch
        /\ theme_entries = <<>>
        /\ archives = {}

C1_Witness ==
    /\ MismatchKnown
    /\ pc = "pkg_return"
    /\ next_i = 2

\* Whether entry i of current is changed with respect to baseline, by the
\* definition of the selection: new, or with another version.
ChangedEntry(current, baseline, i) ==
    \/ \A j \in 1..Len(baseline) : baseline[j].id # current[i].id
    \/ \E j \in 1..Len(baseline) :
         /\ baseline[j].id = current[i].id
         /\ baseline[j].version # current[i].version

\* C2: an id is in the changed-since selection iff it is a key of current
\* that is absent from baseline or has another version there; so the
\* selection is empty iff every id of current has the same version in
\* baseline, and the selection of a registry against itself is empty.
C2_ChangedSelection ==
    pc = "changed_loop" =>
        /\ \A id \in ExtensionIds :
             id \in Range(extension_ids) <=>
                \E i \in 1..loop_i :
                    /\ extensions_toml[i].id = id
                    /\ ChangedEntry(extensions_toml, main_extensions_toml, i)
        /\ loop_i = Len(extensions_toml) =>
             /\ extension_ids = <<>> <=>
                  \A i \in 1..Len(extensions_toml) :
                     \E j \in 1..Len(main_extensions_toml) :
                        main_extensions_toml[j] = extensions_toml[i]
             /\ main_extensions_toml = extensions_toml => extension_ids = <<>>

C2_Witness ==
    /\ pc = "changed_loop"
    /\ loop_i = Len(extensions_toml)
    /\ Len(extensions_toml) = 2
    /\ Keys(main_extensions_toml) = Keys(extensions_toml)
    /\ Len(extension_ids) = 1

\* C3: an id of current is in the unpublished selection iff the published
\* index has no entry for it or an entry without its current version.
C3_UnpublishedSelection ==
    (pc = "unpublished_loop" /\ loop_i = Len(extensions_toml)) =>
        \A i \in 1..Len(extensions_toml) :
            extensions_toml[i].id \in Range(extension_ids) <=>
                \/ extensions_toml[i].id \notin DOMAIN published
                \/ extensions_toml[i].version \notin published[extensions_toml[i].id]

SelectionFailureKinds == {"RegistryLoad", "CreateBuildDir", "Baseline"}

\* C4: a failure while packaging one extension aborts that build only: when
\* the run ends after the selection was computed, every selected id has
\* been attempted.
C4_RunContinuesAfterFailure ==
    /\ pc = "done" => next_i = Len(extension_ids)
    /\ (pc = "failed" /\ error.val.kind \notin SelectionFailureKinds) =>
          next_i = Len(extension_ids)

BadTheme(entry) ==
    /\ to_str(entry.file_name).some
    /\ \/ entry.file.kind # "Parsed"
       \/ entry.file.val.schema_errors # {}

ValidatedTheme(entry) ==
    /\ entry.file.kind = "Parsed"
    /\ entry.file.val.schema_errors = {}

C6_ManifestDecisionTable ==
    read_frame.some =>
        LET f == read_frame.val
            json_opened == "extension.json" \in Range(f.opened)
        IN  /\ f.toml.kind = "Parsed" =>
                 /\ f.result = Ok([manifest |-> f.toml.val, format |-> "Toml"])
                 /\ ~json_opened
            /\ f.toml.kind \in {"Denied", "NotText", "Malformed"} =>
                 /\ ~f.result.ok
                 /\ ~json_opened
            /\ f.toml.kind = "NotFound" =>
                 /\ json_opened
                 /\ f.json.kind = "Parsed" =>
                      f.result = Ok([manifest |-> f.json.val, format |-> "Json"])
                 /\ f.json.kind # "Parsed" => ~f.result.ok

C6_Witness ==
    /\ read_frame.some
    /\ read_frame.val.toml.kind = "Malformed"
    /\ read_frame.val.json.kind = "Parsed"
    /\ ~read_frame.val.result.ok

\* C7: a build that returns success has written the output manifest into
\* the scratch area and the archive of the scratch area.
C7_SuccessHasArchive ==
    (pc = "pkg_return" /\ pkg_result.val.ok) =>
        /\ scratch.exists
        /\ scratch.manifest.some
        /\ archive_name.val \in archives

\* C8: the archive file name is the id, a hyphen, the full version string
\* and .tar.gz, inside the build's scratch directory.
C8_ArchiveName ==
    archive_name.some =>
        archive_name.val =
            Join(package_dir.val,
                 cur.val.extension_id \o <<"-">> \o cur.val.extension_version
                    \o <<".">> \o S_tar_gz)

IndexPermutations(n) ==
    {p \in [1..n -> 1..n] : \A i, j \in 1..n : i # j => p[i] # p[j]}

\* lines 308-319 run on the first n entries of current
RECURSIVE ChangedRun(_, _, _)
ChangedRun(current, n, baseline) ==
    IF n = 0 THEN <<>>
    ELSE ChangedStep(ChangedRun(current, n - 1, baseline), current[n], baseline)

\* C9: the changed-since selection lists the selected ids in the iteration
\* order of current, without duplicates, whatever the order of the keys in
\* the baseline.
C9_ChangedOrder ==
    pc = "changed_loop" =>
        /\ \A a, b \in 1..Len(extension_ids) :
             a < b => Pos(extensions_toml, extension_ids[a])
                        < Pos(extensions_toml, extension_ids[b])
        /\ \A a \in 1..Len(extension_ids) :
             Pos(extensions_toml, extension_ids[a]) <= loop_i
        /\ \A p \in IndexPermutations(Len(main_extensions_toml)) :
             ChangedRun(extensions_toml, loop_i,
                        [i \in 1..Len(main_extensions_toml) |->
                            main_extensions_toml[p[i]]]) = extension_ids

C9_Witness ==
    /\ pc = "changed_loop"
    /\ loop_i = Len(extensions_toml)
    /\ Len(extension_ids) = 2
    /\ Len(main_extensions_toml) = 2
    /\ main_extensions_toml[1].id = extensions_toml[2].id

IsPrefix(s, t) == Len(s) <= Len(t) /\ SubSeq(t, 1, Len(s)) = s

CopiedThemes == IF scratch.exists THEN scratch.themes ELSE {}

\* C10: during a build the output manifest's themes are relative paths
\* themes/<file name>, never absolute or under the source directory; the
\* lists start empty, whatever the source manifest lists, and themes holds
\* one entry per theme file copied into the package; languages holds none.
C10_PackageRelativePaths ==
    package_manifest.some =>
        LET m == package_manifest.val IN
        /\ m.languages = <<>>
        /\ Len(m.themes) = Cardinality(CopiedThemes)
        /\ {m.themes[k] : k \in 1..Len(m.themes)} =
             {RelPath(<<S_themes, name>>) : name \in CopiedThemes}
        /\ \A k \in 1..Len(m.themes) :
             /\ ~m.themes[k].abs
             /\ ~IsPrefix(cur.val.extension_path.comps, m.themes[k].comps)
        /\ pc = "pkg_alloc" => m.themes = <<>>

C10_Witness ==
    /\ package_manifest.some
    /\ metadata.val.themes # <<>>
    /\ Len(package_manifest.val.themes) = 2
    /\ pc = "pkg_walk"

====
